---- MODULE Spec2Model ----
(***************************************************************************)
(* Merkle-tree based incremental index synchronisation                     *)
(* (sync/src/sync/merkle.rs and sync/src/sync/mod.rs).                     *)
(*                                                                         *)
(* The working directory is a small tree of files; a sync of a tag loads   *)
(* the tag's persisted Merkle tree, builds a new one from the directory,   *)
(* persists it, diffs the two and classifies every changed blob against    *)
(* the provider's global DiskSet, the tag's DiskSet and the rev_tags       *)
(* shards.                                                                 *)
(***************************************************************************)
EXTENDS Integers, Sequences, FiniteSets, TLC

(***************************************************************************)
(* Bounds of the model                                                     *)
(***************************************************************************)
\* the text contents a file can hold
Contents == {"x", "xx"}

\* a file whose bytes are not valid UTF-8
Binary == "<binary>"

\* the working directory every tag of the model points at
RootDir == <<"r">>

Branches == {"BRANCH", "BRANCH2"}

Providers == {"default"}

Tags == [dir : {RootDir}, branch : Branches, provider_id : Providers]

(***************************************************************************)
(* Generic helpers                                                         *)
(***************************************************************************)
Last(s) == s[Len(s)]

Front(s) == SubSeq(s, 1, Len(s) - 1)

RECURSIVE Concat(_)
Concat(ss) == IF ss = <<>> THEN <<>> ELSE Head(ss) \o Concat(Tail(ss))

Range(s) == { s[i] : i \in 1..Len(s) }

Reverse(s) == [i \in 1..Len(s) |-> s[Len(s) + 1 - i]]

Max(S) == CHOOSE x \in S : \A y \in S : y <= x

IsPrefix(p, s) == Len(p) <= Len(s) /\ SubSeq(s, 1, Len(p)) = p

(***************************************************************************)
(* Digests (merkle.rs)                                                     *)
(***************************************************************************)
None == <<"None">>

Some(x) == <<"Some", x>>

\* SHA-1 is taken to be collision free: the digest is named by the bytes
\* that were fed to the hasher, in order.
sha1_hash(bytes) == "sha1(" \o bytes \o ")"

\* [0; 20], the hash of Tree::default()
ZeroHash == "00000000000000000000"

\* a blob hash that leaves the content out
blob_hash_of_ext(content, file_ext) == sha1_hash("blob " \o file_ext)

blob_hash(content, file_ext) == sha1_hash("blob " \o file_ext \o " " \o content)

RECURSIVE ConcatBytes(_)
ConcatBytes(hashes) ==
    IF hashes = <<>> THEN "" ELSE Head(hashes) \o ConcatBytes(Tail(hashes))

\* a hasher that is fed "tree" and the first child hash only
tree_hash_first_child(children) ==
    sha1_hash("tree" \o (IF children = <<>> THEN "" ELSE Head(children)))

\* the hasher is fed "tree" and then every child hash, nothing else
tree_hash(children) == sha1_hash("tree" \o ConcatBytes(children))

\* lower-case hex rendering of the 20 bytes
hash_string(hash) == "hex:" \o hash

ObjHash(obj) == obj.hash

ObjPath(obj) == obj.path

IsBlob(obj) == obj.kind = "blob"

Blob(parent, hash, path) ==
    [kind |-> "blob", parent |-> parent, hash |-> hash, path |-> path]

Tree(parent, children, hash, path) ==
    [kind |-> "tree", parent |-> parent, children |-> children,
     hash |-> hash, path |-> path]

DefaultTree == Tree(None, <<>>, ZeroHash, <<>>)

(***************************************************************************)
(* The working directory and the walker                                    *)
(***************************************************************************)
File(name, content) == [kind |-> "file", name |-> name, content |-> content]

Dir(name, entries) == [kind |-> "dir", name |-> name, entries |-> entries]

\* Path::extension: what follows the last dot of the file name, "" when
\* the name has no dot after its first character
Extension(name) ==
    LET dots == { i \in 2..Len(name) : SubSeq(name, i, i) = "." }
    IN  IF dots = {} THEN "" ELSE SubSeq(name, Max(dots) + 1, Len(name))

FileOpts(name, cs) == {<<>>} \cup { <<File(name, c)>> : c \in cs }

\* r/            the root
\* r/a.txt       a file (optional)
\* r/d           a file, or a directory holding the optional file r/d/a.txt
\*               and the optional r/d/d, again a file or a directory
\*               holding the optional file r/d/d/a.txt
SubDirOpts(cs, inner) ==
    FileOpts("d", cs)
    \cup { <<Dir("d", a \o d)>> : a \in FileOpts("a.txt", cs), d \in inner }

DirStatesOver(cs) ==
    { Dir("r", a \o d) :
        a \in FileOpts("a.txt", cs),
        d \in SubDirOpts(cs, SubDirOpts(cs, {<<>>})) }

\* the directory states of the diff and persistence checks
DirStates == DirStatesOver(Contents \cup {Binary})

\* the directory states the user moves between in the sync state machine:
\* r/a.txt is optional, r/d is absent or a directory holding r/d/a.txt
SyncDirStates ==
    { Dir("r", a \o d) :
        a \in FileOpts("a.txt", Contents),
        d \in {<<>>} \cup { <<Dir("d", <<File("a.txt", c)>>)>> : c \in Contents } }

\* The directory of test_compute_tree_for_temp_dir and the edits made to
\* it.  read_dir hands out the entries of a directory in an order the
\* file system chooses and the walker is built without a sorter: the
\* entries of a directory state are listed in the order they are read,
\* by name or by name backwards.
ReadDirOrders == {"by_name", "backwards"}

Arrange(entries, o) == IF o = "by_name" THEN entries ELSE Reverse(entries)

Hello == "Hello, world!"

Range10 == "[continue for i in range(10)]"

Range11 == "[continue for i in range(11)]"

TestSubdirOpts ==
    {<<>>}
    \cup { <<Dir("subdir", c)>> : c \in FileOpts("continue.py", {Range10, Range11}) }

TestDir1Opts(o) ==
    {<<>>, <<Dir("dir1", <<File("file1.txt", Hello)>>)>>,
     <<Dir("dir1", <<File("file2.txt", Hello)>>)>>,
     <<Dir("dir1", Arrange(<<File("file1.txt", Hello), File("file2.txt", Hello)>>, o))>>}

TestDir2Opts(o) ==
    {<<>>}
    \cup { <<Dir("dir2", Arrange(f \o s, o))>> :
             f \in FileOpts("file3.txt", {Hello}), s \in TestSubdirOpts }

TestDirsIn(o) ==
    { Dir("r", Arrange(<<File("__init__.py", "a = 5")>> \o d1 \o d2 \o n, o)) :
        d1 \in TestDir1Opts(o), d2 \in TestDir2Opts(o),
        n \in FileOpts("new_file.txt", {"42"}) }

TestDirs == UNION { TestDirsIn(o) : o \in ReadDirOrders }

\* the first directory of the test
TestDir(o, continue_py, new_file) ==
    Dir("r", Arrange(<<File("__init__.py", "a = 5"),
                       Dir("dir1", Arrange(<<File("file1.txt", Hello),
                                             File("file2.txt", Hello)>>, o)),
                       Dir("dir2", Arrange(<<File("file3.txt", Hello),
                                             Dir("subdir", <<File("continue.py",
                                                                  continue_py)>>)>>, o))>>
                     \o new_file, o))

RECURSIVE WalkFrom(_, _)
WalkFrom(node, parentPath) ==
    LET path == parentPath \o <<node.name>>
    IN  IF node.kind = "file"
        THEN << [path |-> path, is_dir |-> FALSE, content |-> node.content] >>
        ELSE << [path |-> path, is_dir |-> TRUE, content |-> ""] >>
             \o Concat([i \in 1..Len(node.entries) |->
                          WalkFrom(node.entries[i], path)])

\* pre-order, alphabetical within each directory, the root entry first
build_walk(root) == WalkFrom(root, <<>>)

(***************************************************************************)
(* Merkle builder                                                          *)
(***************************************************************************)
PreTree(children, path) == [children |-> children, path |-> path]

finalize(pre) ==
    Tree(None, pre.children,
         tree_hash([i \in 1..Len(pre.children) |-> ObjHash(pre.children[i])]),
         pre.path)

create_blob(entry, parent) ==
    IF entry.content = Binary
    THEN [ok |-> FALSE]
    ELSE [ok |-> TRUE,
          blob |-> Blob(parent,
                        blob_hash(entry.content, Extension(Last(entry.path))),
                        entry.path)]

\* pop the top pre-tree, finalize it and append it to the new top
PopInto(stack) ==
    LET n == Len(stack)
        below == stack[n - 1]
    IN  SubSeq(stack, 1, n - 2)
        \o << PreTree(Append(below.children, finalize(stack[n])), below.path) >>

PushChild(stack, obj) ==
    LET n == Len(stack)
    IN  Front(stack) \o << PreTree(Append(stack[n].children, obj), stack[n].path) >>

\* the while loop "Check whether current_dir is complete"
RECURSIVE CloseDirs(_, _, _)
CloseDirs(stack, current_dir, path) ==
    IF ~IsPrefix(current_dir, path)
    THEN CloseDirs(PopInto(stack), Front(current_dir), path)
    ELSE [stack |-> stack, current_dir |-> current_dir]

RECURSIVE WalkLoop(_, _, _)
WalkLoop(entries, stack, current_dir) ==
    IF entries = <<>>
    THEN stack
    ELSE LET entry == Head(entries)
             c == CloseDirs(stack, current_dir, entry.path)
         IN  IF entry.is_dir
             THEN WalkLoop(Tail(entries),
                           Append(c.stack, PreTree(<<>>, entry.path)),
                           entry.path)
             ELSE LET b == create_blob(entry, None)
                  IN  WalkLoop(Tail(entries),
                               IF b.ok THEN PushChild(c.stack, b.blob) ELSE c.stack,
                               c.current_dir)

RECURSIVE Collapse(_)
Collapse(stack) == IF Len(stack) > 1 THEN Collapse(PopInto(stack)) ELSE stack

RECURSIVE set_childrens_parent(_)
set_childrens_parent(tree) ==
    [tree EXCEPT !.children =
        [i \in 1..Len(tree.children) |->
            LET child == tree.children[i]
            IN  IF IsBlob(child)
                THEN [child EXCEPT !.parent = Some(tree.hash)]
                ELSE set_childrens_parent([child EXCEPT !.parent = Some(tree.hash)])]]

\* the builder without the final pass over the parents
compute_tree_no_parents(root) ==
    LET entries == build_walk(root)
        root_entry == Head(entries)
        stack == WalkLoop(Tail(entries), << PreTree(<<>>, root_entry.path) >>,
                         << root.name >>)
    IN  finalize(Collapse(stack)[1])

compute_tree_for_dir(root) ==
    LET entries == build_walk(root)
        root_entry == Head(entries)
        stack == WalkLoop(Tail(entries), << PreTree(<<>>, root_entry.path) >>,
                         << root.name >>)
    IN  set_childrens_parent(finalize(Collapse(stack)[1]))

(***************************************************************************)
(* Tree persistence (JSON lines, pre-order)                                *)
(***************************************************************************)
\* JSON null of an Option field
JsonNull == <<"null">>

JsonOpt(opt) == IF opt = None THEN JsonNull ELSE <<"value", opt[2]>>

FromJsonOpt(j) == IF j = JsonNull THEN None ELSE Some(j[2])

\* one line of the file: a SerializeableNode rendered by serde_json
SerializeableNode(parent, children, hash, path) ==
    [parent |-> JsonOpt(parent), children |-> JsonOpt(children),
     hash |-> hash, path |-> path]

BlobJsonForObj(blob) ==
    << SerializeableNode(blob.parent, None, blob.hash, blob.path) >>

\* json_for_node with the children of a childless tree left out
json_for_node_skip_empty(tree) ==
    SerializeableNode(tree.parent,
                      IF tree.children = <<>>
                      THEN None
                      ELSE Some([i \in 1..Len(tree.children) |->
                                    ObjHash(tree.children[i])]),
                      tree.hash, tree.path)

json_for_node(tree) ==
    SerializeableNode(tree.parent,
                      Some([i \in 1..Len(tree.children) |-> ObjHash(tree.children[i])]),
                      tree.hash, tree.path)

RECURSIVE json_for_obj(_)
json_for_obj(obj) ==
    IF IsBlob(obj)
    THEN BlobJsonForObj(obj)
    ELSE << json_for_node(obj) >>
         \o Concat([i \in 1..Len(obj.children) |-> json_for_obj(obj.children[i])])

\* a line that is not the JSON of a SerializeableNode
BadLine == [garbage |-> TRUE]

\* serde_json::from_str returns Ok
Parses(line) == line # BadLine

\* Reads the children of root_node from lines.  The result carries the
\* lines left over; panic is TRUE when a line is missing (lines.next()
\* is None), does not parse (unwrap of the Err of from_str) or a node has
\* no children list (unwrap of None).
RECURSIVE obj_from_jsonl(_, _)
RECURSIVE ReadChildren(_, _, _)
ReadChildren(n, lines, acc) ==
    IF n = 0
    THEN [panic |-> FALSE, children |-> acc, rest |-> lines]
    ELSE IF lines = <<>> \/ ~Parses(Head(lines))
         THEN [panic |-> TRUE]
         ELSE LET child_node == Head(lines)
              IN  IF FromJsonOpt(child_node.children) # None
                  THEN LET sub == obj_from_jsonl(Tail(lines), child_node)
                       IN  IF sub.panic
                           THEN [panic |-> TRUE]
                           ELSE ReadChildren(n - 1, sub.rest, Append(acc, sub.tree))
                  ELSE ReadChildren(n - 1, Tail(lines),
                                    Append(acc, Blob(FromJsonOpt(child_node.parent),
                                                     child_node.hash,
                                                     child_node.path)))

obj_from_jsonl(lines, root_node) ==
    LET children == FromJsonOpt(root_node.children)
    IN  IF children = None
        THEN [panic |-> TRUE]
        ELSE LET r == ReadChildren(Len(children[2]), lines, <<>>)
             IN  IF r.panic
                 THEN [panic |-> TRUE]
                 ELSE [panic |-> FALSE,
                       tree |-> Tree(FromJsonOpt(root_node.parent), r.children,
                                     root_node.hash, root_node.path),
                       rest |-> r.rest]

\* a file that does not exist
NoFile == <<"NoFile">>

FileOf(contents) == <<"File", contents>>

\* a file whose bytes are not valid UTF-8
BinaryFile == <<"Binary">>

\* File::create without the write_all
persist_empty(tree) == FileOf(<<>>)

\* File::create + write_all
persist(tree) == FileOf(json_for_obj(tree))

\* load from a path where no file is
load_missing(file) == [status |-> "Err"]

\* Result of Tree::load: Err when the file cannot be opened or read into
\* a String, a panic when a line is missing or does not parse, the tree
\* otherwise
load(file) ==
    IF file = NoFile \/ file = BinaryFile
    THEN [status |-> "Err"]
    ELSE IF file[2] = <<>> \/ ~Parses(Head(file[2]))
         THEN [status |-> "Panic"]
         ELSE LET r == obj_from_jsonl(Tail(file[2]), Head(file[2]))
              IN  IF r.panic
                  THEN [status |-> "Panic"]
                  ELSE [status |-> "Ok", tree |-> r.tree]

(***************************************************************************)
(* Diff engine                                                             *)
(***************************************************************************)
ObjDescription(hash, path, is_blob) ==
    [hash |-> hash, path |-> path, is_blob |-> is_blob]

descr(obj) == ObjDescription(obj.hash, obj.path, IsBlob(obj))

\* Tree::walk: the objects handed to the callback, in order
RECURSIVE walk(_)
walk(tree) ==
    << tree >>
    \o Concat([i \in 1..Len(tree.children) |->
                 IF IsBlob(tree.children[i])
                 THEN << tree.children[i] >>
                 ELSE walk(tree.children[i])])

\* the description of the tree alone, without a walk
all_obj_descriptions_of_root(tree) == << descr(tree) >>

all_obj_descriptions(tree) ==
    LET objs == walk(tree) IN [i \in 1..Len(objs) |-> descr(objs[i])]

Names == {"a.txt", "d"}

\* HashMap::values() iterates in an unspecified order: an order is a
\* ranking of the names, the unmatched old children come out by rank
Orders == { o \in [Names -> 1..Cardinality(Names)] :
              \A x, y \in Names : x # y => o[x] # o[y] }

RECURSIVE ByRank(_, _, _)
ByRank(objs, ord, r) ==
    IF r > Cardinality(DOMAIN ord)
    THEN <<>>
    ELSE SelectSeq(objs, LAMBDA o : ord[Last(ObjPath(o))] = r)
         \o ByRank(objs, ord, r + 1)

\* "Remove - along with all children": what one unmatched old child adds
\* to remove
RemovedChild(obj) ==
    IF IsBlob(obj)
    THEN << descr(obj) >>
    ELSE Concat([i \in 1..Len(walk(obj)) |-> all_obj_descriptions(obj)])

\* a new child that is taken into add only when it is a tree
AddedChild_trees_only(obj) ==
    IF IsBlob(obj) THEN <<>> ELSE all_obj_descriptions(obj)

AddedChild(obj) ==
    IF IsBlob(obj) THEN << descr(obj) >> ELSE all_obj_descriptions(obj)

Matching(children, path) == SelectSeq(children, LAMBDA c : ObjPath(c) = path)

RECURSIVE ObjectDiff(_, _, _)
RECURSIVE diff_children(_, _, _)
diff_children(old_tree, new_tree, ord) ==
    LET ForNew(i) ==
            LET child == new_tree.children[i]
                old == Matching(old_tree.children, ObjPath(child))
            IN  IF old # <<>>
                THEN ObjectDiff(old[1], child, ord)
                ELSE [add |-> AddedChild(child), remove |-> <<>>]
        perNew == [i \in 1..Len(new_tree.children) |-> ForNew(i)]
        unmatched == SelectSeq(old_tree.children,
                               LAMBDA o : Matching(new_tree.children, ObjPath(o)) = <<>>)
        left == ByRank(unmatched, ord, 1)
    IN  [add |-> Concat([i \in 1..Len(perNew) |-> perNew[i].add]),
         remove |-> Concat([i \in 1..Len(perNew) |-> perNew[i].remove])
                    \o Concat([i \in 1..Len(left) |-> RemovedChild(left[i])])]

ObjectDiff(old_obj, new_obj, ord) ==
    IF ObjHash(old_obj) = ObjHash(new_obj)
    THEN [add |-> <<>>, remove |-> <<>>]
    ELSE IF ~IsBlob(old_obj) /\ ~IsBlob(new_obj)
         THEN LET c == diff_children(old_obj, new_obj, ord)
              IN  [add |-> << descr(new_obj) >> \o c.add,
                   remove |-> << descr(old_obj) >> \o c.remove]
         ELSE IF IsBlob(old_obj) /\ IsBlob(new_obj)
              THEN [add |-> << descr(new_obj) >>, remove |-> << descr(old_obj) >>]
              ELSE IF IsBlob(old_obj)
                   THEN [add |-> all_obj_descriptions(new_obj),
                         remove |-> << descr(old_obj) >>]
                   ELSE [add |-> << descr(new_obj) >>,
                         remove |-> all_obj_descriptions(old_obj)]

\* diff without the early return on equal hashes
diff_no_early_return(old_tree, new_tree, ord) ==
    LET c == diff_children(old_tree, new_tree, ord)
    IN  [add |-> << descr(new_tree) >> \o c.add,
         remove |-> << descr(old_tree) >> \o c.remove]

diff(old_tree, new_tree, ord) ==
    IF old_tree.hash = new_tree.hash
    THEN [add |-> <<>>, remove |-> <<>>]
    ELSE LET c == diff_children(old_tree, new_tree, ord)
         IN  [add |-> << descr(new_tree) >> \o c.add,
              remove |-> << descr(old_tree) >> \o c.remove]

(***************************************************************************)
(* DiskSet (mod.rs): a file of fixed-width items                           *)
(***************************************************************************)
\* DiskSet::new creates the file when it does not exist
DiskSetNew(file) == IF file = NoFile THEN FileOf(<<>>) ELSE file

Items(file) == IF file = NoFile THEN <<>> ELSE file[2]

contains(file, item) == \E i \in 1..Len(file[2]) : file[2][i] = item

\* add that appends without looking
DiskSetAdd_unchecked(file, item) == FileOf(Append(file[2], item))

\* the scan of contains leaves the cursor at the end of the file, where
\* write_all appends
DiskSetAdd(file, item) ==
    IF contains(file, item) THEN file ELSE FileOf(Append(file[2], item))

\* remove that closes the gap by moving every later slot down
DiskSetRemove_shift(file, item) ==
    IF contains(file, item)
    THEN FileOf(SelectSeq(file[2], LAMBDA slot : slot # item))
    ELSE file

\* swap-delete: the last slot is copied over the first matching slot and
\* the file is truncated by one slot
DiskSetRemove(file, item) ==
    IF contains(file, item)
    THEN LET slots == file[2]
             pos == CHOOSE i \in 1..Len(slots) :
                        /\ slots[i] = item
                        /\ \A j \in 1..(i - 1) : slots[j] # item
             moved == [slots EXCEPT ![pos] = Last(slots)]
         IN  FileOf(Front(moved))
    ELSE file

(***************************************************************************)
(* IndexCache (mod.rs)                                                     *)
(***************************************************************************)
\* number of rev_tags shards (prefixes of the hex digest) of the model
NumShards == 2

Prefixes == 0..(NumShards - 1)

RECURSIVE PathString(_)
PathString(path) ==
    IF path = <<>> THEN "" ELSE "/" \o Head(path) \o PathString(Tail(path))

\* Tag::to_string
TagToString(tag) ==
    PathString(tag.dir) \o "::" \o tag.branch \o "::" \o tag.provider_id

RECURSIVE JoinComponents(_)
JoinComponents(components) ==
    IF components = <<>>
    THEN ""
    ELSE Head(components) \o JoinComponents(Tail(components))

\* remove_seps_from_path: the components of the absolute path dir, the
\* root component "/" first, pushed onto one string; then the leading
\* slash is removed
remove_seps_from_path(dir) ==
    LET path == JoinComponents(<<"/">> \o dir)
    IN  IF SubSeq(path, 1, 1) = "/" \/ SubSeq(path, 1, 1) = "\\"
        THEN SubSeq(path, 2, Len(path))
        ELSE path

\* path_for_tag: the directory that holds merkle_tree, .index_cache and
\* .last_sync of the tag
path_for_tag(tag) ==
    << "~", ".continue", "index", "tags",
       remove_seps_from_path(tag.dir), tag.branch, tag.provider_id >>

\* rev_tags_path: the shard is named by the first two hex characters
rev_tags_path(hash) == Len(hash_string(hash)) % NumShards

\* an IndexCache value: the tag and the three files it works on
IndexCache(tag, global_cache, tag_cache, rev_tags) ==
    [tag |-> tag, global_cache |-> global_cache, tag_cache |-> tag_cache,
     rev_tags |-> rev_tags]

IndexCacheNew(tag, global_cache, tag_cache, rev_tags) ==
    IndexCache(tag, DiskSetNew(global_cache), DiskSetNew(tag_cache), rev_tags)

tag_str(ic) == TagToString(ic.tag)

EmptyMap == [k \in {} |-> <<>>]

\* serde_json::from_str(..).unwrap_or_default(): an empty file is an
\* empty map
ParseRevTags(file) == IF file[2] = <<>> THEN EmptyMap ELSE file[2][1]

\* open with create(true): a missing shard file comes into being empty
OpenCreate(file) == IF file = NoFile THEN FileOf(<<>>) ELSE file

read_rev_tags(ic, hash) ==
    LET shard == rev_tags_path(hash)
        file == OpenCreate(ic.rev_tags[shard])
    IN  [ic |-> [ic EXCEPT !.rev_tags[shard] = file], map |-> ParseRevTags(file)]

write_rev_tags(ic, hash, rev_tags) ==
    [ic EXCEPT !.rev_tags[rev_tags_path(hash)] = FileOf(<<rev_tags>>)]

MapPut(map, key, val) ==
    [k \in DOMAIN map \cup {key} |-> IF k = key THEN val ELSE map[k]]

MapRemove(map, key) == [k \in DOMAIN map \ {key} |-> map[k]]

\* add_global that leaves the global cache alone
add_global_tag_only(ic, item) ==
    LET ic1 == [ic EXCEPT !.tag_cache = DiskSetAdd(@, item.hash)]
        r == read_rev_tags(ic1, item.hash)
        hash_str == hash_string(item.hash)
        m1 == IF hash_str \notin DOMAIN r.map
              THEN MapPut(r.map, hash_str, <<>>)
              ELSE r.map
        m2 == MapPut(m1, hash_str, Append(m1[hash_str], tag_str(ic)))
    IN  write_rev_tags(r.ic, item.hash, m2)

add_global(ic, item) ==
    LET ic1 == [ic EXCEPT !.global_cache = DiskSetAdd(@, item.hash),
                          !.tag_cache = DiskSetAdd(@, item.hash)]
        r == read_rev_tags(ic1, item.hash)
        hash_str == hash_string(item.hash)
        m1 == IF hash_str \notin DOMAIN r.map
              THEN MapPut(r.map, hash_str, <<>>)
              ELSE r.map
        m2 == MapPut(m1, hash_str, Append(m1[hash_str], tag_str(ic)))
    IN  write_rev_tags(r.ic, item.hash, m2)

\* global_remove that leaves the global cache alone
global_remove_keep_global(ic, item) ==
    LET ic1 == [ic EXCEPT !.tag_cache = DiskSetRemove(@, item.hash)]
        r == read_rev_tags(ic1, item.hash)
        hash_str == hash_string(item.hash)
        m1 == IF hash_str \in DOMAIN r.map THEN MapRemove(r.map, hash_str) ELSE r.map
    IN  write_rev_tags(r.ic, item.hash, m1)

global_remove(ic, item) ==
    LET ic1 == [ic EXCEPT !.global_cache = DiskSetRemove(@, item.hash),
                          !.tag_cache = DiskSetRemove(@, item.hash)]
        r == read_rev_tags(ic1, item.hash)
        hash_str == hash_string(item.hash)
        m1 == IF hash_str \in DOMAIN r.map THEN MapRemove(r.map, hash_str) ELSE r.map
    IN  write_rev_tags(r.ic, item.hash, m1)

RemoveAt(s, i) == SubSeq(s, 1, i - 1) \o SubSeq(s, i + 1, Len(s))

\* panic is TRUE when the tag is not in the list (unwrap of position)
local_remove(ic, item) ==
    LET ic1 == [ic EXCEPT !.tag_cache = DiskSetRemove(@, item.hash)]
        r == read_rev_tags(ic1, item.hash)
        hash_str == hash_string(item.hash)
    IN  IF hash_str \in DOMAIN r.map
        THEN LET tags == r.map[hash_str]
             IN  IF \E i \in 1..Len(tags) : tags[i] = tag_str(ic)
                 THEN LET index == CHOOSE i \in 1..Len(tags) :
                                       /\ tags[i] = tag_str(ic)
                                       /\ \A j \in 1..(i - 1) : tags[j] # tag_str(ic)
                          tags1 == RemoveAt(tags, index)
                          m1 == IF tags1 = <<>>
                                THEN MapRemove(r.map, hash_str)
                                ELSE MapPut(r.map, hash_str, tags1)
                      IN  [panic |-> FALSE, ic |-> write_rev_tags(r.ic, item.hash, m1)]
                 ELSE [panic |-> TRUE, ic |-> r.ic]
        ELSE [panic |-> FALSE, ic |-> write_rev_tags(r.ic, item.hash, r.map)]

\* a global_contains that finds every hash
global_contains_any(ic, hash) == TRUE

global_contains(ic, hash) == contains(ic.global_cache, hash)

get_rev_tags(ic, hash) ==
    LET r == read_rev_tags(ic, hash)
        hash_str == hash_string(hash)
    IN  [ic |-> r.ic,
         tags |-> IF hash_str \in DOMAIN r.map THEN r.map[hash_str] ELSE <<>>]

(***************************************************************************)
(* Sync orchestrator (mod.rs)                                              *)
(***************************************************************************)
\* the (path, hash) pair of the four result lists
ResultPair(item) == << PathString(item.path), hash_string(item.hash) >>

\* "for item in add"
RECURSIVE AddLoop(_, _)
AddLoop(items, st) ==
    IF items = <<>>
    THEN st
    ELSE LET item == Head(items)
         IN  IF ~item.is_blob
             THEN AddLoop(Tail(items), st)
             ELSE IF global_contains(st.ic, item.hash)
                  THEN AddLoop(Tail(items),
                               [st EXCEPT !.add_label = Append(@, ResultPair(item)),
                                          !.ic = add_global(@, item)])
                  ELSE AddLoop(Tail(items),
                               [st EXCEPT !.compute = Append(@, ResultPair(item)),
                                          !.ic = add_global(@, item)])

\* "for item in remove"
RECURSIVE RemoveLoop(_, _)
RemoveLoop(items, st) ==
    IF items = <<>> \/ st.panic
    THEN st
    ELSE LET item == Head(items)
         IN  IF ~item.is_blob
             THEN RemoveLoop(Tail(items), st)
             ELSE IF global_contains(st.ic, item.hash)
                  THEN LET g == get_rev_tags(st.ic, item.hash)
                       IN  IF Len(g.tags) <= 1
                           THEN RemoveLoop(Tail(items),
                                    [st EXCEPT !.ic = global_remove(g.ic, item),
                                               !.delete = Append(@, ResultPair(item))])
                           ELSE LET l == local_remove(g.ic, item)
                                IN  IF l.panic
                                    THEN [st EXCEPT !.ic = l.ic, !.panic = TRUE]
                                    ELSE RemoveLoop(Tail(items),
                                             [st EXCEPT !.ic = l.ic,
                                                        !.remove_label =
                                                            Append(@, ResultPair(item))])
                  ELSE RemoveLoop(Tail(items), st)

\* the timestamp of .last_sync is written and never read
LastSyncFile == FileOf(<<"now">>)

\* One call of sync.  tagFiles are the files of the tag's directory,
\* provFiles those of the provider's directory, ord the iteration order of
\* the hash map in diff_children.
sync(tag, root, tagFiles, provFiles, ord) ==
    LET loaded == load(tagFiles.merkle_tree)
    IN  IF loaded.status = "Panic"
        THEN [status |-> "panic", tagFiles |-> tagFiles, provFiles |-> provFiles,
              old_tree |-> DefaultTree, new_tree |-> DefaultTree,
              compute |-> <<>>, delete |-> <<>>,
              add_label |-> <<>>, remove_label |-> <<>>]
        ELSE LET old_tree == IF loaded.status = "Ok" THEN loaded.tree ELSE DefaultTree
                 new_tree == compute_tree_for_dir(root)
                 d == diff(old_tree, new_tree, ord)
                 index_cache == IndexCacheNew(tag, provFiles.index_cache,
                                              tagFiles.index_cache, provFiles.rev_tags)
                 a == AddLoop(d.add, [ic |-> index_cache,
                                      compute |-> <<>>, add_label |-> <<>>])
                 r == RemoveLoop(d.remove, [ic |-> a.ic, delete |-> <<>>,
                                            remove_label |-> <<>>, panic |-> FALSE])
             IN  [status |-> IF r.panic THEN "panic" ELSE "ok",
                  tagFiles |-> [merkle_tree |-> persist(new_tree),
                                index_cache |-> r.ic.tag_cache,
                                last_sync |-> LastSyncFile],
                  provFiles |-> [index_cache |-> r.ic.global_cache,
                                 rev_tags |-> r.ic.rev_tags],
                  old_tree |-> old_tree, new_tree |-> new_tree,
                  compute |-> a.compute, delete |-> r.delete,
                  add_label |-> a.add_label, remove_label |-> r.remove_label]

(***************************************************************************)
(* State                                                                   *)
(***************************************************************************)
VARIABLES
    dir,          \* the working directory
    tagDir,       \* per tag: the files merkle_tree, .index_cache, .last_sync
    providerDir,  \* per provider: .index_cache and the rev_tags shards
    last,         \* the last operation and, for a sync, what it returned
    input,        \* arguments of a call of diff or persist/load
    output,       \* what that call returned
    call          \* the sync in progress when sync is followed line by line

vars == << dir, tagDir, providerDir, last, input, output, call >>

\* no sync is in progress; syncs counts the calls begun so far
Idle(n) == [pc |-> "idle", syncs |-> n]

NoCall ==
    [op |-> "none", tag |-> CHOOSE t \in Tags : TRUE, status |-> "ok",
     repeat |-> FALSE, old_tree |-> DefaultTree,
     compute |-> <<>>, delete |-> <<>>, add_label |-> <<>>, remove_label |-> <<>>]

\* nothing has been synced: no file exists
EmptyStore ==
    /\ tagDir = [t \in Tags |-> [merkle_tree |-> NoFile, index_cache |-> NoFile,
                                 last_sync |-> NoFile]]
    /\ providerDir = [p \in Providers |->
                        [index_cache |-> NoFile,
                         rev_tags |-> [s \in Prefixes |-> NoFile]]]
    /\ last = NoCall
    /\ call = Idle(0)

Init ==
    /\ dir \in SyncDirStates
    /\ EmptyStore
    /\ input = <<>>
    /\ output = <<>>

\* a panic ends the process
Running == last.status = "ok"

\* the user changes the working directory
Edit ==
    /\ Running
    /\ \E d \in SyncDirStates \ {dir} : dir' = d
    /\ last' = [NoCall EXCEPT !.op = "edit"]
    /\ UNCHANGED << tagDir, providerDir, input, output, call >>

Sync(tag) ==
    /\ Running
    /\ \E ord \in Orders :
         \E r \in {sync(tag, dir, tagDir[tag], providerDir[tag.provider_id], ord)} :
             /\ tagDir' = [tagDir EXCEPT ![tag] = r.tagFiles]
             /\ providerDir' = [providerDir EXCEPT ![tag.provider_id] = r.provFiles]
             /\ last' = [op |-> "sync", tag |-> tag, status |-> r.status,
                         repeat |-> (last.op = "sync" /\ last.tag = tag),
                         old_tree |-> r.old_tree,
                         compute |-> r.compute, delete |-> r.delete,
                         add_label |-> r.add_label, remove_label |-> r.remove_label]
    /\ UNCHANGED << dir, input, output, call >>

Next == Edit \/ \E tag \in Tags : Sync(tag)

Spec == Init /\ [][Next]_vars

(***************************************************************************)
(* diff applied to two trees                                               *)
(***************************************************************************)
\* the trees the builder produces, and the default tree of a first sync
Trees == { compute_tree_for_dir(d) : d \in DirStates } \cup {DefaultTree}

DiffInit ==
    /\ dir = Dir("r", <<>>)
    /\ EmptyStore
    /\ input \in { <<old, new, ord>> : old \in Trees, new \in Trees, ord \in Orders }
    /\ output = <<>>

\* diff(old, new) and diff(new, old), the second under any iteration order
CallDiff ==
    /\ output = <<>>
    /\ \E ord2 \in Orders :
         output' = << diff(input[1], input[2], input[3]),
                      diff(input[2], input[1], ord2) >>
    /\ UNCHANGED << dir, tagDir, providerDir, last, input, call >>

DiffNext == CallDiff

SpecDiff == DiffInit /\ [][DiffNext]_vars

(***************************************************************************)
(* persist and load applied to a tree                                      *)
(***************************************************************************)
PersistInit ==
    /\ dir \in DirStates
    /\ EmptyStore
    /\ input = << compute_tree_for_dir(dir) >>
    /\ output = <<>>

CallPersist ==
    /\ output = <<>>
    /\ output' = << persist(input[1]) >>
    /\ UNCHANGED << dir, tagDir, providerDir, last, input, call >>

CallLoad ==
    /\ Len(output) = 1
    /\ output' = Append(output, load(output[1]))
    /\ UNCHANGED << dir, tagDir, providerDir, last, input, call >>

PersistNext == CallPersist \/ CallLoad

SpecPersist == PersistInit /\ [][PersistNext]_vars

(***************************************************************************)
(* sync followed statement by statement.  call holds the locals of the     *)
(* call in progress; every write goes to the files at once.                *)
(***************************************************************************)
\* number of sync calls begun in a run
MaxSyncs == 3

StepInit == Init

\* line 394: Tree::load(..).unwrap_or_default()
StepLoad(tag) ==
    /\ Running
    /\ call.pc = "idle"
    /\ call.syncs < MaxSyncs
    /\ \E loaded \in {load(tagDir[tag].merkle_tree)} :
         IF loaded.status = "Panic"
         THEN /\ call' = [pc |-> "panicked", syncs |-> call.syncs + 1]
              /\ last' = [NoCall EXCEPT !.op = "sync", !.tag = tag, !.status = "panic"]
         ELSE /\ call' = [pc |-> "loaded", syncs |-> call.syncs + 1, tag |-> tag,
                          old_tree |-> IF loaded.status = "Ok"
                                       THEN loaded.tree ELSE DefaultTree,
                          new_tree |-> DefaultTree, add |-> <<>>, remove |-> <<>>,
                          ic |-> IndexCache(tag, NoFile, NoFile, <<>>),
                          compute |-> <<>>, delete |-> <<>>,
                          add_label |-> <<>>, remove_label |-> <<>>]
              /\ UNCHANGED last
    /\ UNCHANGED << dir, tagDir, providerDir, input, output >>

\* line 399
StepCompute ==
    /\ call.pc = "loaded"
    /\ call' = [call EXCEPT !.pc = "computed", !.new_tree = compute_tree_for_dir(dir)]
    /\ UNCHANGED << dir, tagDir, providerDir, last, input, output >>

\* line 402
StepWriteSyncTime ==
    /\ call.pc = "computed"
    /\ tagDir' = [tagDir EXCEPT ![call.tag].last_sync = LastSyncFile]
    /\ call' = [call EXCEPT !.pc = "timed"]
    /\ UNCHANGED << dir, providerDir, last, input, output >>

\* line 405 without the write of the merkle_tree file
StepPersist_no_write ==
    /\ call.pc = "timed"
    /\ call' = [call EXCEPT !.pc = "persisted"]
    /\ UNCHANGED << dir, tagDir, providerDir, last, input, output >>

\* line 405
StepPersist ==
    /\ call.pc = "timed"
    /\ tagDir' = [tagDir EXCEPT ![call.tag].merkle_tree = persist(call.new_tree)]
    /\ call' = [call EXCEPT !.pc = "persisted"]
    /\ UNCHANGED << dir, providerDir, last, input, output >>

\* line 408
StepDiff ==
    /\ call.pc = "persisted"
    /\ \E ord \in Orders :
         \E d \in {diff(call.old_tree, call.new_tree, ord)} :
             call' = [call EXCEPT !.pc = "diffed", !.add = d.add, !.remove = d.remove]
    /\ UNCHANGED << dir, tagDir, providerDir, last, input, output >>

\* the files of an IndexCache, written through
StoreCaches(ic) ==
    /\ tagDir' = [tagDir EXCEPT ![ic.tag].index_cache = ic.tag_cache]
    /\ providerDir' = [providerDir EXCEPT ![ic.tag.provider_id] =
                          [index_cache |-> ic.global_cache, rev_tags |-> ic.rev_tags]]

\* line 413: IndexCache::new creates the two DiskSet files when missing
StepOpenCache ==
    /\ call.pc = "diffed"
    /\ \E ic \in {IndexCacheNew(call.tag,
                                providerDir[call.tag.provider_id].index_cache,
                                tagDir[call.tag].index_cache,
                                providerDir[call.tag.provider_id].rev_tags)} :
         /\ call' = [call EXCEPT !.pc = "looping", !.ic = ic]
         /\ StoreCaches(ic)
    /\ UNCHANGED << dir, last, input, output >>

\* lines 420-439: one turn of "for item in add"
StepAdd ==
    /\ call.pc = "looping"
    /\ call.add # <<>>
    /\ \E a \in {AddLoop(<< Head(call.add) >>,
                          [ic |-> call.ic, compute |-> call.compute,
                           add_label |-> call.add_label])} :
         /\ call' = [call EXCEPT !.add = Tail(@), !.ic = a.ic,
                                 !.compute = a.compute, !.add_label = a.add_label]
         /\ StoreCaches(a.ic)
    /\ UNCHANGED << dir, last, input, output >>

\* lines 441-462: one turn of "for item in remove"
StepRemove ==
    /\ call.pc = "looping"
    /\ call.add = <<>>
    /\ call.remove # <<>>
    /\ \E r \in {RemoveLoop(<< Head(call.remove) >>,
                             [ic |-> call.ic, delete |-> call.delete,
                              remove_label |-> call.remove_label, panic |-> FALSE])} :
         /\ call' = [call EXCEPT !.pc = IF r.panic THEN "panicked" ELSE @,
                                 !.remove = Tail(@), !.ic = r.ic,
                                 !.delete = r.delete, !.remove_label = r.remove_label]
         /\ StoreCaches(r.ic)
         /\ last' = IF r.panic
                    THEN [NoCall EXCEPT !.op = "sync", !.tag = call.tag,
                                        !.status = "panic"]
                    ELSE last
    /\ UNCHANGED << dir, input, output >>

\* line 464
StepReturn ==
    /\ call.pc = "looping"
    /\ call.add = <<>>
    /\ call.remove = <<>>
    /\ last' = [op |-> "sync", tag |-> call.tag, status |-> "ok",
                repeat |-> (last.op = "sync" /\ last.tag = call.tag),
                old_tree |-> call.old_tree,
                compute |-> call.compute, delete |-> call.delete,
                add_label |-> call.add_label, remove_label |-> call.remove_label]
    /\ call' = Idle(call.syncs)
    /\ UNCHANGED << dir, tagDir, providerDir, input, output >>

\* the user changes the directory between two calls
StepEdit == call.pc = "idle" /\ Edit

StepNext ==
    \/ \E tag \in Tags : StepLoad(tag)
    \/ StepCompute
    \/ StepWriteSyncTime
    \/ StepPersist
    \/ StepDiff
    \/ StepOpenCache
    \/ StepAdd
    \/ StepRemove
    \/ StepReturn
    \/ StepEdit

SpecSteps == StepInit /\ [][StepNext]_vars

(***************************************************************************)
(* sync interrupted between two statements: the process dies, the locals   *)
(* of the call are lost, the files stay as they were written               *)
(***************************************************************************)
\* the statements of sync that have been executed when the call is at pc
Interruptible == {"loaded", "computed", "timed", "persisted", "diffed", "looping"}

Crash ==
    /\ call.pc \in Interruptible
    /\ call' = Idle(call.syncs)
    /\ last' = [op |-> "crash", tag |-> call.tag, status |-> "ok", repeat |-> FALSE,
                old_tree |-> call.old_tree, at |-> call.pc,
                compute |-> <<>>, delete |-> <<>>,
                add_label |-> <<>>, remove_label |-> <<>>]
    /\ UNCHANGED << dir, tagDir, providerDir, input, output >>

CrashNext == StepNext \/ Crash

SpecCrash == StepInit /\ [][CrashNext]_vars

(***************************************************************************)
(* sync on a tag whose merkle_tree file is missing or damaged              *)
(***************************************************************************)
\* what persist leaves behind when the process dies inside it (File::create
\* has truncated the file, write_all has written none or part of the
\* lines), and what a damaged disk can hold
DamagedFiles ==
    {NoFile, FileOf(<<>>), FileOf(<< BadLine >>), BinaryFile}
    \cup { FileOf(<< Head(persist(compute_tree_for_dir(d))[2]) >>) :
             d \in SyncDirStates \ {Dir("r", <<>>)} }

\* the caches do not exist yet; .last_sync is written before merkle_tree
LoadInit ==
    /\ dir \in SyncDirStates
    /\ \E f \in [Tags -> DamagedFiles] :
           tagDir = [t \in Tags |->
                       [merkle_tree |-> f[t], index_cache |-> NoFile,
                        last_sync |-> IF f[t] = NoFile THEN NoFile ELSE LastSyncFile]]
    /\ providerDir = [p \in Providers |->
                        [index_cache |-> NoFile,
                         rev_tags |-> [s \in Prefixes |-> NoFile]]]
    /\ last = NoCall
    /\ call = Idle(0)
    /\ input = <<>>
    /\ output = <<>>

LoadNext == \E tag \in Tags : Sync(tag)

SpecLoad == LoadInit /\ [][LoadNext]_vars

(***************************************************************************)
(* A DiskSet on a fresh file, call after call                              *)
(***************************************************************************)
\* [1; 20], [20; 20] and [30; 20] of test_disk_set
DiskItems == {"item1", "item2", "item3"}

\* number of calls made on the set
MaxCalls == 4

\* input lists the calls made so far, output is the file
DiskSetInit ==
    /\ dir = Dir("r", <<>>)
    /\ EmptyStore
    /\ input = <<>>
    /\ output = DiskSetNew(NoFile)

CallAdd(item) ==
    /\ Len(input) < MaxCalls
    /\ output' = DiskSetAdd(output, item)
    /\ input' = Append(input, << "add", item >>)
    /\ UNCHANGED << dir, tagDir, providerDir, last, call >>

CallRemove(item) ==
    /\ Len(input) < MaxCalls
    /\ output' = DiskSetRemove(output, item)
    /\ input' = Append(input, << "remove", item >>)
    /\ UNCHANGED << dir, tagDir, providerDir, last, call >>

DiskSetNext == \E item \in DiskItems : CallAdd(item) \/ CallRemove(item)

SpecDiskSet == DiskSetInit /\ [][DiskSetNext]_vars

(***************************************************************************)
(* The builder and diff on the directory of the unit test: build, edit,    *)
(* build again, diff                                                       *)
(***************************************************************************)
TestNames ==
    << "__init__.py", "continue.py", "dir1", "dir2", "file1.txt", "file2.txt",
       "file3.txt", "new_file.txt", "subdir" >>

NameIndex(n) == CHOOSE i \in 1..Len(TestNames) : TestNames[i] = n

\* two iteration orders of the hash map over these names
TestOrders ==
    { [n \in Range(TestNames) |-> NameIndex(n)],
      [n \in Range(TestNames) |-> Len(TestNames) + 1 - NameIndex(n)] }

TestInit ==
    /\ dir \in TestDirs
    /\ EmptyStore
    /\ input = <<>>
    /\ output = <<>>

TestCompute ==
    /\ input = <<>>
    /\ input' = << compute_tree_for_dir(dir) >>
    /\ UNCHANGED << dir, tagDir, providerDir, last, output, call >>

\* files are written, created or deleted between the two builds; the
\* order in which a directory is read stays what it is
TestEdit ==
    /\ Len(input) = 1
    /\ last.op = "none"
    /\ \E o \in ReadDirOrders :
         /\ dir \in TestDirsIn(o)
         /\ \E d \in TestDirsIn(o) \ {dir} : dir' = d
    /\ last' = [NoCall EXCEPT !.op = "edit"]
    /\ UNCHANGED << tagDir, providerDir, input, output, call >>

TestRecompute ==
    /\ Len(input) = 1
    /\ input' = Append(input, compute_tree_for_dir(dir))
    /\ UNCHANGED << dir, tagDir, providerDir, last, output, call >>

TestDiff ==
    /\ Len(input) = 2
    /\ output = <<>>
    /\ \E ord \in TestOrders : output' = << diff(input[1], input[2], ord) >>
    /\ UNCHANGED << dir, tagDir, providerDir, last, input, call >>

TestNext == TestCompute \/ TestEdit \/ TestRecompute \/ TestDiff

SpecTest == TestInit /\ [][TestNext]_vars

(***************************************************************************)
(* sync by tags of several directories.  The per-tag files are kept under  *)
(* the path path_for_tag gives; in the specifications above every tag has  *)
(* the directory RootDir and simple names, where path_for_tag is           *)
(* one-to-one and the files are kept under the tag itself.                 *)
(***************************************************************************)
\* the directories tags point at: /a/bc, /ab/c and /r
TagDirs == { <<"a", "bc">>, <<"ab", "c">>, RootDir }

PathTags == [dir : TagDirs, branch : Branches, provider_id : Providers]

TagPaths == { path_for_tag(t) : t \in PathTags }

RECURSIVE DirName(_)
DirName(d) ==
    IF Len(d) = 1 THEN Head(d) ELSE Head(d) \o "/" \o DirName(Tail(d))

\* the directory of a tag with its present entries
RootOf(d) == Dir(DirName(d), dir[d])

TagsInit ==
    /\ dir \in [TagDirs -> FileOpts("a.txt", Contents)]
    /\ tagDir = [p \in TagPaths |-> [merkle_tree |-> NoFile, index_cache |-> NoFile,
                                     last_sync |-> NoFile]]
    /\ providerDir = [p \in Providers |->
                        [index_cache |-> NoFile,
                         rev_tags |-> [s \in Prefixes |-> NoFile]]]
    /\ last = NoCall
    /\ call = Idle(0)
    /\ input = <<>>
    /\ output = <<>>

TagEdit ==
    /\ Running
    /\ call.syncs < MaxSyncs
    /\ \E d \in TagDirs : \E e \in FileOpts("a.txt", Contents) \ {dir[d]} :
         dir' = [dir EXCEPT ![d] = e]
    /\ last' = [NoCall EXCEPT !.op = "edit"]
    /\ UNCHANGED << tagDir, providerDir, input, output, call >>

TagSync(tag) ==
    /\ Running
    /\ call.syncs < MaxSyncs
    /\ \E ord \in Orders :
         \E r \in {sync(tag, RootOf(tag.dir), tagDir[path_for_tag(tag)],
                        providerDir[tag.provider_id], ord)} :
             /\ tagDir' = [tagDir EXCEPT ![path_for_tag(tag)] = r.tagFiles]
             /\ providerDir' = [providerDir EXCEPT ![tag.provider_id] = r.provFiles]
             /\ last' = [op |-> "sync", tag |-> tag, status |-> r.status,
                         repeat |-> (last.op = "sync" /\ last.tag = tag),
                         old_tree |-> r.old_tree,
                         compute |-> r.compute, delete |-> r.delete,
                         add_label |-> r.add_label, remove_label |-> r.remove_label]
    /\ call' = Idle(call.syncs + 1)
    /\ UNCHANGED << dir, input, output >>

TagsNext == TagEdit \/ \E tag \in PathTags : TagSync(tag)

SpecTags == TagsInit /\ [][TagsNext]_vars

(***************************************************************************)
(* Views of the store used by the properties                               *)
(***************************************************************************)
BlobsOfTree(tree) == { d \in Range(all_obj_descriptions(tree)) : d.is_blob }

\* the blobs of the tree persisted among the files of a tag
PersistedBlobs(files) ==
    IF files.merkle_tree = NoFile
    THEN {}
    ELSE BlobsOfTree(load(files.merkle_tree).tree)

TagBlobs(t) == PersistedBlobs(tagDir[t])

TagBlobHashes(t) == { b.hash : b \in TagBlobs(t) }

GlobalHashes(p) == Range(Items(providerDir[p].index_cache))

TagCacheHashes(t) == Range(Items(tagDir[t].index_cache))

RevTagsMap(p, hash) ==
    LET file == providerDir[p].rev_tags[rev_tags_path(hash)]
    IN  IF file = NoFile THEN EmptyMap ELSE ParseRevTags(file)

HasRevTags(p, hash) == hash_string(hash) \in DOMAIN RevTagsMap(p, hash)

\* the blob hashes that occur in the model
BlobHashes == { blob_hash(c, e) : c \in Contents, e \in {"", "txt"} }

Count(seq, x) == Cardinality({ i \in 1..Len(seq) : seq[i] = x })

SameBag(s, t) == \A x \in Range(s) \cup Range(t) : Count(s, x) = Count(t, x)

\* a sync has just returned normally
SyncReturned == last.op = "sync" /\ last.status = "ok"

OtherTags(t) == { u \in Tags : u # t /\ u.provider_id = t.provider_id }

(***************************************************************************)
(* Properties                                                              *)
(***************************************************************************)
\* C1: when a sync of a tag returns and the directory is left unchanged,
\* the immediately following sync of the same tag returns four empty
\* lists.
C1_SecondSyncEmpty ==
    (SyncReturned /\ last.repeat) =>
        /\ last.compute = <<>>
        /\ last.delete = <<>>
        /\ last.add_label = <<>>
        /\ last.remove_label = <<>>

C1_Witness ==
    /\ SyncReturned
    /\ last.repeat
    /\ TagBlobs(last.tag) # {}
    /\ \E u \in OtherTags(last.tag) : TagBlobs(u) # {}

\* the tree already persisted by another tag of the provider is the tree
\* of the directory the tag has just been synced on for the first time
FirstSyncOfSyncedDir ==
    /\ SyncReturned
    /\ last.old_tree = DefaultTree
    /\ \E u \in OtherTags(last.tag) :
           tagDir[u].merkle_tree = tagDir[last.tag].merkle_tree

\* C2: the first sync of a new tag on a directory that another tag of the
\* same provider has synced and that is unchanged returns compute,
\* delete and remove_label empty and add_label with one entry per blob of
\* the tree.
C2_NewTagOnlyAddsLabels ==
    FirstSyncOfSyncedDir =>
        /\ last.compute = <<>>
        /\ last.delete = <<>>
        /\ last.remove_label = <<>>
        /\ \A b \in TagBlobs(last.tag) : Count(last.add_label, ResultPair(b)) = 1
        /\ Len(last.add_label) = Cardinality(TagBlobs(last.tag))

\* the blobs of the tag's prior tree that are not in its new tree
RemovedBlobs == BlobsOfTree(last.old_tree) \ TagBlobs(last.tag)

\* C3: a blob removed from the tag's tree whose hash is still held by a
\* blob of another tag's persisted tree is reported in remove_label, not
\* in delete, and its hash stays in the global cache.
C3_RemovedButClaimedElsewhere ==
    SyncReturned =>
        \A b \in RemovedBlobs :
            (\E u \in OtherTags(last.tag) : b.hash \in TagBlobHashes(u)) =>
                /\ \E i \in 1..Len(last.remove_label) :
                       last.remove_label[i] = ResultPair(b)
                /\ \A i \in 1..Len(last.delete) : last.delete[i] # ResultPair(b)
                /\ b.hash \in GlobalHashes(last.tag.provider_id)

\* C5: no (path, hash) pair is in more than one of the four lists of a
\* sync.
C5_ListsDisjoint ==
    SyncReturned =>
        LET lists == << Range(last.compute), Range(last.delete),
                        Range(last.add_label), Range(last.remove_label) >>
        IN  \A i, j \in 1..4 : i # j => lists[i] \cap lists[j] = {}

\* C6: a hash that no tag's persisted tree holds is neither in the
\* global cache nor a key of rev_tags.
C6_Eviction ==
    Running =>
        \A p \in Providers : \A h \in BlobHashes :
            (\A t \in Tags : t.provider_id = p => h \notin TagBlobHashes(t)) =>
                /\ h \notin GlobalHashes(p)
                /\ ~HasRevTags(p, h)

\* a sync has evicted the hash of a blob no tree holds any more
C6_Witness ==
    /\ SyncReturned
    /\ last.delete # <<>>
    /\ \E b \in RemovedBlobs :
           /\ \A t \in Tags : b.hash \notin TagBlobHashes(t)
           /\ \E u \in OtherTags(last.tag) : TagBlobs(u) # {}

\* C7: every blob reported in remove_label has its hash in the persisted
\* tree of a tag other than the synced one.
C7_RemoveLabelClaimedElsewhere ==
    SyncReturned =>
        \A i \in 1..Len(last.remove_label) :
            \E u \in OtherTags(last.tag) :
                \E b \in TagBlobs(u) : hash_string(b.hash) = last.remove_label[i][2]

\* C8: diff of a tree with itself returns two empty lists.
C8_DiffSelfEmpty ==
    (output # <<>> /\ input[1] = input[2]) =>
        output[1].add = <<>> /\ output[1].remove = <<>>

C8_Witness ==
    /\ output # <<>>
    /\ input[1] = input[2]
    /\ \E i \in 1..Len(input[1].children) :
           /\ ~IsBlob(input[1].children[i])
           /\ input[1].children[i].children # <<>>

\* C9: the added list of diff(T1, T2) and the removed list of
\* diff(T2, T1) hold the same descriptions the same number of times.
C9_DiffSwap ==
    output # <<>> => SameBag(output[1].add, output[2].remove)

\* C10: load(persist(T)) is T: same shape, child order, kinds, hashes,
\* paths and parents.
C10_PersistLoadRoundTrip ==
    Len(output) = 2 =>
        output[2].status = "Ok" /\ output[2].tree = input[1]

\* the tree holds a blob, an empty subdirectory and a nested one
C10_Witness ==
    /\ Len(output) = 2
    /\ \E i, j \in 1..Len(input[1].children) :
           /\ IsBlob(input[1].children[i])
           /\ ~IsBlob(input[1].children[j])
           /\ \E k \in 1..Len(input[1].children[j].children) :
                  /\ ~IsBlob(input[1].children[j].children[k])
                  /\ input[1].children[j].children[k].children = <<>>

\* the step is a sync that returns normally
SyncStep == last'.op = "sync" /\ last'.status = "ok"

\* path held content of hash old before the step and holds content of
\* hash new after it; no other blob of any tag has hash old, before or
\* after the step, and the global cache did not hold hash new
ChangedAlone(path, old, new) ==
    /\ ObjDescription(old, path, TRUE) \in TagBlobs(last'.tag)
    /\ ObjDescription(new, path, TRUE) \in PersistedBlobs(tagDir'[last'.tag])
    /\ old # new
    /\ \A t \in Tags : \A b \in TagBlobs(t) \cup PersistedBlobs(tagDir'[t]) :
           b.hash = old => (t = last'.tag /\ b.path = path)
    /\ new \notin GlobalHashes(last'.tag.provider_id)
    /\ \A b \in PersistedBlobs(tagDir'[last'.tag]) : b.hash = new => b.path = path

Paths == { <<"r", "a.txt">>, <<"r", "d", "a.txt">> }

\* C4: a file whose content changes from a hash no other blob of any tag
\* has to a hash the global cache does not hold is reported in compute
\* with its new hash and in delete with its old hash, and not in add_label
\* or remove_label.
C4_ChangedFile ==
    [][ SyncStep =>
          \A path \in Paths : \A old, new \in BlobHashes :
              ChangedAlone(path, old, new) =>
                  /\ << PathString(path), hash_string(new) >> \in Range(last'.compute)
                  /\ << PathString(path), hash_string(old) >> \in Range(last'.delete)
                  /\ \A pair \in Range(last'.add_label) \cup Range(last'.remove_label) :
                         pair[1] # PathString(path)
      ]_vars

\* every child of the tree, at any depth, names the tree that holds it
RECURSIVE ParentsMatch(_)
ParentsMatch(tree) ==
    \A i \in 1..Len(tree.children) :
        LET child == tree.children[i]
        IN  /\ child.parent = Some(tree.hash)
            /\ IsBlob(child) \/ ParentsMatch(child)

\* C11: in every tree compute_tree_for_dir returns the root has no parent
\* and the parent of every other node is the hash of the tree that holds
\* the node as a child.
C11_ParentIsContainingTree ==
    \A k \in 1..Len(input) : input[k].parent = None /\ ParentsMatch(input[k])

\* a directory with a nested directory was closed before a later file of
\* the root was read
C11_Witness ==
    \E k \in 1..Len(input) : \E i, j \in 1..Len(input[k].children) :
        /\ i < j
        /\ IsBlob(input[k].children[j])
        /\ ~IsBlob(input[k].children[i])
        /\ \E c \in Range(input[k].children[i].children) :
               ~IsBlob(c) /\ c.children # <<>>

TreeNodes(tree) == { o \in Range(walk(tree)) : ~IsBlob(o) }

ChildHashes(tree) == [i \in 1..Len(tree.children) |-> ObjHash(tree.children[i])]

\* the two trees have the same nodes at the same places and the blob at
\* place i of the walk is the only blob whose hash differs
OneBlobChanged(t1, t2, i) ==
    LET w1 == walk(t1)
        w2 == walk(t2)
    IN  /\ Len(w1) = Len(w2)
        /\ i \in 1..Len(w1)
        /\ IsBlob(w1[i])
        /\ \A j \in 1..Len(w1) :
               /\ ObjPath(w1[j]) = ObjPath(w2[j])
               /\ IsBlob(w1[j]) = IsBlob(w2[j])
               /\ IsBlob(w1[j]) => ((ObjHash(w1[j]) # ObjHash(w2[j])) <=> j = i)

\* the nodes whose hash differs are the blob at place i and its ancestors
OnlyAncestorsChanged(t1, t2, i) ==
    LET w1 == walk(t1)
        w2 == walk(t2)
    IN  \A j \in 1..Len(w1) :
            (ObjHash(w1[j]) # ObjHash(w2[j])) <=> IsPrefix(ObjPath(w1[j]), ObjPath(w1[i]))

\* C12: trees with the same sequence of child hashes have the same hash,
\* whatever their paths and parents; when one blob's hash changes, the
\* hash of each of its ancestor trees up to the root changes and the hash
\* of every other node stays.
C12_TreeHashOfChildHashes ==
    /\ \A k1, k2 \in 1..Len(input) :
           \A a \in TreeNodes(input[k1]) : \A b \in TreeNodes(input[k2]) :
               ChildHashes(a) = ChildHashes(b) => ObjHash(a) = ObjHash(b)
    /\ Len(input) = 2 =>
           \A i \in 1..Len(walk(input[1])) :
               OneBlobChanged(input[1], input[2], i) =>
                   OnlyAncestorsChanged(input[1], input[2], i)

\* continue.py, three directories down, was rewritten; a directory next
\* to its ancestors holds the same child hashes under another parent
C12_Witness ==
    /\ Len(input) = 2
    /\ \E i \in 1..Len(walk(input[1])) :
           /\ OneBlobChanged(input[1], input[2], i)
           /\ Len(ObjPath(walk(input[1])[i])) = 4
    /\ \E a \in TreeNodes(input[1]) : \E b \in TreeNodes(input[2]) :
           /\ a.parent # b.parent
           /\ ChildHashes(a) = ChildHashes(b)
           /\ ChildHashes(a) # <<>>

\* the set that results from the calls, made on a mathematical set
RECURSIVE AbstractSet(_)
AbstractSet(calls) ==
    IF calls = <<>>
    THEN {}
    ELSE LET c == Last(calls)
         IN  IF c[1] = "add"
             THEN AbstractSet(Front(calls)) \cup {c[2]}
             ELSE AbstractSet(Front(calls)) \ {c[2]}

\* C13: after any calls of add and remove on a fresh file, contains(y)
\* holds exactly for the members of the set the same calls build; a second
\* add of an item changes nothing, and remove(x) makes contains(x) false
\* and leaves the membership of every other item as it was.
C13_DiskSetRefinesSet ==
    /\ \A y \in DiskItems : contains(output, y) <=> y \in AbstractSet(input)
    /\ \A x \in DiskItems :
           /\ DiskSetAdd(DiskSetAdd(output, x), x) = DiskSetAdd(output, x)
           /\ \A y \in DiskItems :
                  contains(DiskSetRemove(output, x), y)
                      <=> (y # x /\ contains(output, y))

\* an item was added twice and removed, another item is left
C13_Witness ==
    \E i, j, k \in 1..Len(input) :
        /\ i < j /\ j < k
        /\ input[i] = input[j]
        /\ input[i][1] = "add"
        /\ input[k] = << "remove", input[i][2] >>
        /\ output[2] # <<>>

\* C14: remove(x) on a file of N slots with x in slot i leaves N-1 slots:
\* slot i holds what the last slot held (when i is not the last slot) and
\* every other slot is as before; remove of an absent item leaves the
\* file as it is.
C14_RemoveSwapsLast ==
    [][ \A x \in DiskItems :
          input' = Append(input, << "remove", x >>) =>
              LET old == output[2]
                  new == output'[2]
                  N == Len(old)
              IN  IF \E i \in 1..N : old[i] = x
                  THEN \E i \in 1..N :
                           /\ old[i] = x
                           /\ Len(new) = N - 1
                           /\ \A j \in 1..(N - 1) :
                                  new[j] = IF j = i THEN old[N] ELSE old[j]
                  ELSE output' = output
      ]_vars

\* item1 was removed from the first of three slots
C14_Witness ==
    /\ input = << << "add", "item1" >>, << "add", "item2" >>,
                  << "add", "item3" >>, << "remove", "item1" >> >>
    /\ output = FileOf(<< "item3", "item2" >>)

\* the file is not one that persist has written in full
Damaged(file) ==
    file \notin { persist(compute_tree_for_dir(d)) : d \in SyncDirStates }

\* C15: a sync of a tag whose merkle_tree file is missing, empty or not
\* parsable returns normally and has taken the default tree as the prior
\* tree.
C15_DamagedLoadsDefault ==
    [][ \A t \in Tags :
          (last'.op = "sync" /\ last'.tag = t /\ Damaged(tagDir[t].merkle_tree)) =>
              (last'.status = "ok" /\ last'.old_tree = DefaultTree)
      ]_vars

\* the step writes to the global cache, a tag cache or rev_tags (creating
\* one of these files included)
CacheStep ==
    \/ providerDir' # providerDir
    \/ \E t \in Tags : tagDir'[t].index_cache # tagDir[t].index_cache

\* the tag's merkle_tree file holds the tree the call has built
TreeWritten ==
    /\ call.pc \notin {"idle", "panicked"}
    /\ load(tagDir[call.tag].merkle_tree) = [status |-> "Ok", tree |-> call.new_tree]

\* the list of tags rev_tags holds for the hash
RevTagsEntry(p, h) ==
    IF HasRevTags(p, h) THEN Some(RevTagsMap(p, h)[hash_string(h)]) ELSE None

\* the hashes for which the step changes what the caches say
TouchedHashes ==
    { h \in BlobHashes :
        \/ (h \in GlobalHashes(call.tag.provider_id))
               # (h \in GlobalHashes(call.tag.provider_id)')
        \/ (h \in TagCacheHashes(call.tag)) # (h \in TagCacheHashes(call.tag)')
        \/ RevTagsEntry(call.tag.provider_id, h)
               # RevTagsEntry(call.tag.provider_id, h)' }

\* the step works on the next entry of diff's add list, or on the next
\* entry of its remove list once the add list is used up
HeadTouched ==
    \/ TouchedHashes = {}
    \/ /\ call.pc = "looping"
       /\ call.add # <<>>
       /\ Head(call.add).is_blob
       /\ TouchedHashes = {Head(call.add).hash}
       /\ Head(call.add).hash \in TagCacheHashes(call.tag)'
       /\ call'.add = Tail(call.add)
       /\ call'.remove = call.remove
    \/ /\ call.pc = "looping"
       /\ call.add = <<>>
       /\ call.remove # <<>>
       /\ Head(call.remove).is_blob
       /\ TouchedHashes = {Head(call.remove).hash}
       /\ Head(call.remove).hash \notin TagCacheHashes(call.tag)'
       /\ call'.remove = Tail(call.remove)

\* C16: every write of a sync to the global cache, the tag cache or
\* rev_tags comes after the new tree has been written to merkle_tree, and
\* the writes follow diff's add list entry by entry and then, the add list
\* used up, its remove list entry by entry.
C16_TreeBeforeCaches ==
    [][ CacheStep =>
          /\ TreeWritten
          /\ \A t \in Tags \ {call.tag} : tagDir'[t] = tagDir[t]
          /\ HeadTouched
      ]_vars

\* blobs have been added and removed in the call and a remove is pending
C16_Witness ==
    /\ call.pc = "looping"
    /\ call.add = <<>>
    /\ call.remove # <<>>
    /\ call.compute # <<>>
    /\ call.delete # <<>>

NewFile == << File("new_file.txt", "42") >>

\* the two builds are those of the test directory with the given
\* content of continue.py and with or without new_file.txt
TestBuilds(old_py, old_new_file, new_py, new_new_file) ==
    /\ output # <<>>
    /\ \E o \in ReadDirOrders :
           /\ input[1] = compute_tree_for_dir(TestDir(o, old_py, old_new_file))
           /\ input[2] = compute_tree_for_dir(TestDir(o, new_py, new_new_file))

DiffLens(a, r) == Len(output[1].add) = a /\ Len(output[1].remove) = r

\* C17 as stated: with new_file.txt added to the directory of the test and
\* nothing else changed, diff returns 5 added and 4 removed entries.
C17_OnlyNewFileFiveFour ==
    TestBuilds(Range10, <<>>, Range10, NewFile) => DiffLens(5, 4)

\* C17: with new_file.txt added to the directory of the test and nothing
\* else changed, diff returns 2 added entries (the new root and the new
\* blob) and 1 removed entry (the old root), whatever continue.py holds;
\* 5 added and 4 removed entries are returned when continue.py has been
\* rewritten as well, as it has in the test.
C17_NewFileCounts ==
    /\ TestBuilds(Range10, <<>>, Range10, NewFile) => DiffLens(2, 1)
    /\ TestBuilds(Range11, <<>>, Range11, NewFile) => DiffLens(2, 1)
    /\ TestBuilds(Range10, <<>>, Range11, NewFile) => DiffLens(5, 4)

\* the original tree of the test against the tree built after both edits
C17_Witness == TestBuilds(Range10, <<>>, Range11, NewFile)

\* the child of new that has the path of c
Partner(c, new) == Matching(new.children, ObjPath(c))[1]

HasPartner(c, new) == Matching(new.children, ObjPath(c)) # <<>>

\* the children of old trees, at any depth diff compares, that have no
\* child of the same path on the new side
RECURSIVE UnmatchedOld(_, _)
UnmatchedOld(old, new) ==
    IF ObjHash(old) = ObjHash(new) \/ IsBlob(old) \/ IsBlob(new)
    THEN {}
    ELSE { c \in Range(old.children) : ~HasPartner(c, new) }
         \cup UNION { UnmatchedOld(c, Partner(c, new)) :
                        c \in { c \in Range(old.children) : HasPartner(c, new) } }

\* one description for every node of the object's subtree
SubtreeDescriptions(obj) ==
    IF IsBlob(obj) THEN {descr(obj)} ELSE { descr(o) : o \in Range(walk(obj)) }

\* C18: an old child, at any depth, without a child of the same path on
\* the new side is in removed with one description for each node of its
\* subtree, each of them once.
C18_RemovedFlattenedOnce ==
    output # <<>> =>
        \A c \in UnmatchedOld(input[1], input[2]) :
            \A x \in SubtreeDescriptions(c) : Count(output[1].remove, x) = 1

\* the pairs of an old and a new object of the same path and different
\* hashes, at any depth diff compares, of which one is a Blob and the
\* other a Tree
RECURSIVE TypeChanged(_, _)
TypeChanged(old, new) ==
    IF ObjHash(old) = ObjHash(new)
    THEN {}
    ELSE IF IsBlob(old) # IsBlob(new)
         THEN {<< old, new >>}
         ELSE IF IsBlob(old)
              THEN {}
              ELSE UNION { TypeChanged(c, Partner(c, new)) :
                             c \in { c \in Range(old.children) : HasPartner(c, new) } }

\* C19: when a path is a Blob on one side and a Tree on the other, every
\* node of the old side is in removed once and every node of the new side
\* is in added once.
C19_TypeChangeFlattensBoth ==
    output # <<>> =>
        \A p \in TypeChanged(input[1], input[2]) :
            /\ \A x \in SubtreeDescriptions(p[1]) : Count(output[1].remove, x) = 1
            /\ \A x \in SubtreeDescriptions(p[2]) : Count(output[1].add, x) = 1

\* a directory with a directory in it has become a file, below the root
C19_Witness ==
    /\ output # <<>>
    /\ \E p \in TypeChanged(input[1], input[2]) :
           /\ IsBlob(p[2])
           /\ \E c \in Range(p[1].children) : ~IsBlob(c) /\ c.children # <<>>

TreePaths(tree) == { ObjPath(o) : o \in TreeNodes(tree) }

\* the descriptions of the trees on the way from the root to path
AncestorTrees(tree, path) ==
    { descr(t) : t \in { t \in TreeNodes(tree) : IsPrefix(ObjPath(t), path) } }

\* the blob at b1.path was rewritten: the two trees have the same
\* directories and the same blobs but for b1 on the old and b2 on the new
\* side
Rewritten(old, new, b1, b2) ==
    /\ TreePaths(old) = TreePaths(new)
    /\ b1.path = b2.path
    /\ b1.hash # b2.hash
    /\ BlobsOfTree(old) \ {b1} = BlobsOfTree(new) \ {b2}

\* the blob b2 was created in a directory that was there
Created(old, new, b2) ==
    /\ TreePaths(old) = TreePaths(new)
    /\ b2 \notin BlobsOfTree(old)
    /\ BlobsOfTree(old) = BlobsOfTree(new) \ {b2}

\* the list holds every member of the set once and nothing else
ListsExactly(list, set) == Range(list) = set /\ Len(list) = Cardinality(set)

\* C20: when the only change is the rewriting of one blob, added is the
\* new blob and the new trees on its path and removed the old blob and the
\* old trees on its path; when the only change is the creation of one
\* blob, added is the blob and the new trees on its path and removed the
\* old trees on its path.  With d directories on the path that is d+1
\* entries, d for removed at a creation.
C20_OneBlobChange ==
    output # <<>> =>
        LET old == input[1]
            new == input[2]
            d(b) == Len(b.path) - 1
        IN  /\ \A b1 \in BlobsOfTree(old) : \A b2 \in BlobsOfTree(new) :
                   Rewritten(old, new, b1, b2) =>
                       /\ ListsExactly(output[1].add,
                                       AncestorTrees(new, b2.path) \cup {b2})
                       /\ ListsExactly(output[1].remove,
                                       AncestorTrees(old, b1.path) \cup {b1})
                       /\ Len(output[1].add) = d(b2) + 1
                       /\ Len(output[1].remove) = d(b1) + 1
            /\ \A b2 \in BlobsOfTree(new) :
                   Created(old, new, b2) =>
                       /\ ListsExactly(output[1].add,
                                       AncestorTrees(new, b2.path) \cup {b2})
                       /\ ListsExactly(output[1].remove, AncestorTrees(old, b2.path))
                       /\ Len(output[1].add) = d(b2) + 1
                       /\ Len(output[1].remove) = d(b2)

\* a blob three directories down was rewritten next to other blobs
C20_Witness ==
    /\ output # <<>>
    /\ \E b1 \in BlobsOfTree(input[1]) : \E b2 \in BlobsOfTree(input[2]) :
           /\ Rewritten(input[1], input[2], b1, b2)
           /\ Len(b1.path) = 4
           /\ Cardinality(BlobsOfTree(input[1])) > 2

\* the step is a turn of the add loop on the blob of hash h, made by the
\* sync of tag t
AddTurn(t, h) ==
    /\ call.pc = "looping"
    /\ call.add # <<>>
    /\ call' # call
    /\ call.tag = t
    /\ Head(call.add).is_blob
    /\ Head(call.add).hash = h

\* C21: an added blob goes into compute when the global cache does not
\* hold its hash at that moment and into add_label when it does, never
\* into both; right after, both caches hold the hash and rev_tags lists
\* the tag for it.  No two entries of compute have the same hash.
C21_ComputeIffNew ==
    [][ \A t \in Tags : \A h \in BlobHashes :
          AddTurn(t, h) =>
              LET pair == ResultPair(Head(call.add))
                  known == h \in GlobalHashes(t.provider_id)
              IN  /\ call'.compute =
                         IF known THEN call.compute ELSE Append(call.compute, pair)
                  /\ call'.add_label =
                         IF known THEN Append(call.add_label, pair) ELSE call.add_label
                  /\ h \in GlobalHashes(t.provider_id)'
                  /\ h \in TagCacheHashes(t)'
                  /\ HasRevTags(t.provider_id, h)'
                  /\ TagToString(t) \in Range(RevTagsMap(t.provider_id, h)'[hash_string(h)])
                  /\ \A i, j \in 1..Len(call'.compute) :
                         i # j => call'.compute[i][2] # call'.compute[j][2]
      ]_vars

\* in one call a hash went into compute and, with a later blob, into
\* add_label
C21_Witness ==
    /\ call.pc = "looping"
    /\ \E i \in 1..Len(call.compute) : \E j \in 1..Len(call.add_label) :
           call.compute[i][2] = call.add_label[j][2]

\* the step is a turn of the remove loop on the blob of hash h, made by
\* the sync of tag t
RemoveTurn(t, h) ==
    /\ call.pc = "looping"
    /\ call.add = <<>>
    /\ call.remove # <<>>
    /\ call' # call
    /\ call.tag = t
    /\ Head(call.remove).is_blob
    /\ Head(call.remove).hash = h

\* C22: the turn of the remove loop on a blob whose hash the global cache
\* does not hold puts nothing into the four lists, leaves the global
\* cache, the tag caches and rev_tags as they are and goes on to the next
\* entry.
C22_AbsentHashSkipped ==
    [][ \A t \in Tags : \A h \in BlobHashes :
          (RemoveTurn(t, h) /\ h \notin GlobalHashes(t.provider_id)) =>
              /\ call'.pc = "looping"
              /\ call'.remove = Tail(call.remove)
              /\ call'.compute = call.compute
              /\ call'.delete = call.delete
              /\ call'.add_label = call.add_label
              /\ call'.remove_label = call.remove_label
              /\ providerDir' = providerDir
              /\ tagDir' = tagDir
      ]_vars

\* a sync has returned although a blob of the old tree that is not in the
\* new tree went into neither delete nor remove_label
C22_Witness ==
    /\ call.pc = "idle"
    /\ SyncReturned
    /\ \E b \in RemovedBlobs :
           ResultPair(b) \notin Range(last.delete) \cup Range(last.remove_label)

\* C23: every blob that a turn of the remove loop processes has its hash
\* in the global cache at that moment.
C23_RemovedHashIsCached ==
    [][ \A t \in Tags : \A h \in BlobHashes :
          RemoveTurn(t, h) => h \in GlobalHashes(t.provider_id)
      ]_vars

\* the call in progress is a sync of the tag whose previous sync died after
\* line 405 had written the new tree, and the directory has not been
\* changed since
AfterCrash ==
    /\ last.op = "crash"
    /\ last.at \in {"persisted", "diffed", "looping"}
    /\ call.pc \in Interruptible
    /\ call.tag = last.tag

\* the blobs of the tag's persisted tree that the interrupted sync was to
\* classify and whose hash the tag cache does not hold
Unclassified ==
    { b \in TagBlobs(last.tag) \ BlobsOfTree(last.old_tree) :
          b.hash \notin TagCacheHashes(last.tag) }

\* C24: the sync of a tag that follows an interruption of that tag's sync
\* after the tree was persisted, the directory unchanged, changes neither
\* the global cache, the tag caches nor rev_tags, does not abort and
\* returns four empty lists.
C24_CrashNotRepaired ==
    [][ AfterCrash =>
          /\ \A p \in Providers : GlobalHashes(p)' = GlobalHashes(p)
          /\ \A t \in Tags : TagCacheHashes(t)' = TagCacheHashes(t)
          /\ \A p \in Providers : \A h \in BlobHashes :
                 RevTagsEntry(p, h)' = RevTagsEntry(p, h)
          /\ call'.pc # "panicked"
          /\ (call'.pc = "idle" /\ last'.op = "sync") =>
                 /\ last'.status = "ok"
                 /\ last'.compute = <<>>
                 /\ last'.delete = <<>>
                 /\ last'.add_label = <<>>
                 /\ last'.remove_label = <<>>
      ]_vars

\* the sync after the interruption stands at its return statement with
\* four empty lists, and blobs of the interrupted sync are unclassified
C24_Witness ==
    /\ AfterCrash
    /\ call.pc = "looping"
    /\ call.add = <<>> /\ call.remove = <<>>
    /\ call.compute = <<>> /\ call.add_label = <<>>
    /\ call.delete = <<>> /\ call.remove_label = <<>>
    /\ Unclassified # {}

\* C25: when a sync has returned, the global cache of each provider holds
\* the hash of every blob of the persisted tree of every tag of that
\* provider.
C25_GlobalCoversAllTrees ==
    (call.pc = "idle" /\ SyncReturned) =>
        \A t \in Tags : \A b \in TagBlobs(t) :
            b.hash \in GlobalHashes(t.provider_id)

\* C26: when a sync has returned, for every tag and every hash: the tag
\* cache holds the hash iff the tag string occurs in rev_tags of the hash
\* iff the tag's persisted tree holds a blob of that hash.
C26_ThreeViewsAgree ==
    (call.pc = "idle" /\ SyncReturned) =>
        \A t \in Tags : \A h \in BlobHashes :
            LET cached == h \in TagCacheHashes(t)
                labelled == /\ HasRevTags(t.provider_id, h)
                            /\ TagToString(t) \in
                                   Range(RevTagsMap(t.provider_id, h)[hash_string(h)])
                in_tree == h \in TagBlobHashes(t)
            IN  (cached <=> labelled) /\ (labelled <=> in_tree)

\* the tag strings listed in rev_tags for the hash h
Labels(p, h) ==
    IF HasRevTags(p, h) THEN Range(RevTagsMap(p, h)[hash_string(h)]) ELSE {}

\* C27: no statement of a sync of tag T takes the label of another tag out
\* of rev_tags.
C27_OtherLabelsKept ==
    [][ \A t \in Tags : \A u \in Tags : \A h \in BlobHashes :
          ( /\ call.pc \notin {"idle", "panicked"}
            /\ call.tag = t
            /\ u # t
            /\ TagToString(u) \in Labels(u.provider_id, h) )
          => TagToString(u) \in Labels(u.provider_id, h)'
      ]_vars

\* C28: when a turn of the remove loop calls local_remove (the hash is in
\* the global cache and rev_tags lists more than one tag for it), the
\* string of the current tag is among the listed ones and the call does
\* not abort.
C28_LocalRemoveFindsTag ==
    [][ \A t \in Tags : \A h \in BlobHashes :
          ( /\ RemoveTurn(t, h)
            /\ h \in GlobalHashes(t.provider_id)
            /\ HasRevTags(t.provider_id, h)
            /\ Len(RevTagsMap(t.provider_id, h)[hash_string(h)]) > 1 )
          => /\ TagToString(t) \in Labels(t.provider_id, h)
             /\ call'.pc # "panicked"
      ]_vars

\* C29: every blob of the new tree whose (path, hash) is not in the old
\* tree is in add, and every blob of the old tree whose (path, hash) is
\* not in the new tree is in remove.
C29_DiffCompleteForBlobs ==
    (Len(input) = 2 /\ Len(output) = 1) =>
        /\ BlobsOfTree(input[2]) \ BlobsOfTree(input[1]) \subseteq Range(output[1].add)
        /\ BlobsOfTree(input[1]) \ BlobsOfTree(input[2]) \subseteq Range(output[1].remove)

\* what rev_tags files say about the hash h
LabelsIn(rev_tags, h) ==
    LET file == rev_tags[rev_tags_path(h)]
        map == IF file = NoFile THEN EmptyMap ELSE ParseRevTags(file)
    IN  IF hash_string(h) \in DOMAIN map THEN map[hash_string(h)] ELSE <<>>

\* two results of sync with the same four lists as sets of pairs, the
\* same global cache, the same tag cache and the same rev_tags
SameOutcome(r1, r2) ==
    /\ Range(r1.compute) = Range(r2.compute)
    /\ Range(r1.delete) = Range(r2.delete)
    /\ Range(r1.add_label) = Range(r2.add_label)
    /\ Range(r1.remove_label) = Range(r2.remove_label)
    /\ Range(Items(r1.provFiles.index_cache)) = Range(Items(r2.provFiles.index_cache))
    /\ Range(Items(r1.tagFiles.index_cache)) = Range(Items(r2.tagFiles.index_cache))
    /\ \A h \in BlobHashes :
           SameBag(LabelsIn(r1.provFiles.rev_tags, h), LabelsIn(r2.provFiles.rev_tags, h))

\* C30: from any store and directory between two calls, the sync of a tag
\* that returns gives the same lists and caches under every iteration
\* order of the hash map of diff_children.
C30_OrderIndependent ==
    (call.pc = "idle" /\ Running) =>
        \A t \in Tags : \A o1, o2 \in Orders :
            LET r1 == sync(t, dir, tagDir[t], providerDir[t.provider_id], o1)
                r2 == sync(t, dir, tagDir[t], providerDir[t.provider_id], o2)
            IN  (r1.status = "ok" /\ r2.status = "ok") => SameOutcome(r1, r2)

\* the per-tag files of a tag
FilesOfTag(t) == tagDir[path_for_tag(t)]

\* C31: a sync of a tag leaves the merkle_tree and the .index_cache of
\* every tag that differs from it in directory, branch or provider_id as
\* they are.
C31_TagsIndependent ==
    [][ \A t \in PathTags : \A u \in PathTags \ {t} :
          (last'.op = "sync" /\ last'.tag = t /\ call' # call) =>
              /\ FilesOfTag(u)'.merkle_tree = FilesOfTag(u).merkle_tree
              /\ FilesOfTag(u)'.index_cache = FilesOfTag(u).index_cache
      ]_vars

====
